---- MODULE Spec2Model ----
(***************************************************************************)
(* The software rasterizer of src/main.rs: MyApp (triangle list and orbit  *)
(* camera) and MyApp::update, the per-frame callback that folds the        *)
(* pointer input into the camera, transforms and projects every triangle,  *)
(* sorts the render records back to front and issues the draw calls.       *)
(*                                                                         *)
(* Numbers.  The program computes in f32.  The model computes in exact     *)
(* rationals <<n, d>> (d > 0, lowest terms), so every comparison, clamp    *)
(* and cast is decided as the code decides it on the values reached here;  *)
(* f32 rounding, overflow and underflow are outside the bounds.  Angles    *)
(* are multiples of 1.57 rad, whose sine and cosine are taken as those of  *)
(* the quarter turn (pi/2 = 1.5708).                                       *)
(***************************************************************************)
EXTENDS Integers, Sequences, FiniteSets

VARIABLES
    triangles,    \* MyApp.triangles: sequence of <<p0, p1, p2>>, p = <<x, y, z>>
    yaw,          \* MyApp.yaw (radians)
    pitch,        \* MyApp.pitch (radians)
    dist,         \* MyApp.dist
    pan_x,        \* MyApp.pan_x
    pan_y,        \* MyApp.pan_y
    input,        \* the input sampled by the last frame (ctx.input, rect.center())
    render_tris,  \* the last frame's render records, as sorted (frame-local Vec)
    draws,        \* the draw calls the last frame issued to the painter, in order
    panicked,     \* TRUE once a frame has panicked (the process is gone)
    frames,       \* number of frames run
    seen          \* observer: a frame remembered for comparison (or NoFrame)

vars == <<triangles, yaw, pitch, dist, pan_x, pan_y, input, render_tris, draws,
          panicked, frames, seen>>

-----------------------------------------------------------------------------
(* Exact rational arithmetic standing for f32.                             *)

Abs(n) == IF n < 0 THEN -n ELSE n

RECURSIVE GCD(_, _)
GCD(a, b) == IF b = 0 THEN a ELSE GCD(b, a % b)

\* n/d divided through by g, the denominator made positive
Reduced(n, d, g) ==
    IF d < 0 THEN <<(-n) \div g, (-d) \div g>> ELSE <<n \div g, d \div g>>

\* n/d in lowest terms with a positive denominator (d # 0)
R(n, d) == Reduced(n, d, GCD(Abs(n), Abs(d)))

I(n) == <<n, 1>>

RNeg(a)    == <<-a[1], a[2]>>
\* Sums over the least common denominator and products reduced crosswise
\* before multiplying keep the intermediate integers small; integers and zero
\* need no reduction.
AddOver(a, b, g) ==
    R(a[1] * (b[2] \div g) + b[1] * (a[2] \div g), (a[2] \div g) * b[2])
RAdd(a, b) ==
    IF a[1] = 0 THEN b ELSE IF b[1] = 0 THEN a
    ELSE IF a[2] = 1 /\ b[2] = 1 THEN <<a[1] + b[1], 1>>
    ELSE AddOver(a, b, GCD(a[2], b[2]))
RSub(a, b) == RAdd(a, RNeg(b))
MulOver(a, b, g1, g2) ==
    <<(a[1] \div g1) * (b[1] \div g2), (a[2] \div g2) * (b[2] \div g1)>>
RMul(a, b) ==
    IF a[1] = 0 \/ b[1] = 0 THEN <<0, 1>>
    ELSE IF a[2] = 1 /\ b[2] = 1 THEN <<a[1] * b[1], 1>>
    ELSE MulOver(a, b, GCD(Abs(a[1]), b[2]), GCD(Abs(b[1]), a[2]))
RInv(a)    == IF a[1] < 0 THEN <<-a[2], -a[1]>> ELSE <<a[2], a[1]>>
RDiv(a, b) == RMul(a, RInv(b))
\* a < b: by the integer parts, then by the fractional parts
FracLt(a, b, g) ==
    (a[1] % a[2]) * (b[2] \div g) < (b[1] % b[2]) * (a[2] \div g)
RLt(a, b)  ==
    IF a[1] \div a[2] # b[1] \div b[2]
    THEN a[1] \div a[2] < b[1] \div b[2]
    ELSE FracLt(a, b, GCD(a[2], b[2]))
RLe(a, b)  == ~RLt(b, a)
RAbs(a)    == <<Abs(a[1]), a[2]>>
\* f32::max, f32::clamp
RMax(a, b) == IF RLt(a, b) THEN b ELSE a
RClamp(x, lo, hi) == IF RLt(x, lo) THEN lo ELSE IF RLt(hi, x) THEN hi ELSE x
\* truncation toward zero, as `as u8` truncates before it saturates
RTrunc(a) == IF a[1] >= 0 THEN a[1] \div a[2] ELSE -((-a[1]) \div a[2])

-----------------------------------------------------------------------------
(* Vectors and 4x4 matrices (nalgebra Matrix4<f32>, Vector4<f32>).         *)

Zero == I(0)
One  == I(1)

Dot4(a, b) ==
    RAdd(RAdd(RAdd(RMul(a[1], b[1]), RMul(a[2], b[2])), RMul(a[3], b[3])),
         RMul(a[4], b[4]))

Col(B, c) == <<B[1][c], B[2][c], B[3][c], B[4][c]>>

RowTimes(a, B) ==
    <<Dot4(a, Col(B, 1)), Dot4(a, Col(B, 2)), Dot4(a, Col(B, 3)),
      Dot4(a, Col(B, 4))>>

\* Matrix4 * Matrix4
MatMul(A, B) ==
    <<RowTimes(A[1], B), RowTimes(A[2], B), RowTimes(A[3], B),
      RowTimes(A[4], B)>>

\* Matrix4 * Vector4
MatVec(A, v) == <<Dot4(A[1], v), Dot4(A[2], v), Dot4(A[3], v), Dot4(A[4], v)>>

\* The angles the model reaches are multiples of 1.57 rad; quarter turns in a.
QuarterAngle == R(157, 100)
Quarters(a) == RDiv(a, QuarterAngle)[1] % 4

CosQ(q) == IF q = 0 THEN <<1, 1>> ELSE IF q = 2 THEN <<-1, 1>> ELSE <<0, 1>>
SinQ(q) == IF q = 1 THEN <<1, 1>> ELSE IF q = 3 THEN <<-1, 1>> ELSE <<0, 1>>
Cos(a) == CosQ(Quarters(a))
Sin(a) == SinQ(Quarters(a))

\* Matrix4::new_rotation(Vector3::y() * yaw): right-handed rotation about Y.
RotY(a) ==
    << <<Cos(a),       Zero, Sin(a), Zero>>,
       <<Zero,         One,  Zero,   Zero>>,
       <<RNeg(Sin(a)), Zero, Cos(a), Zero>>,
       <<Zero,         Zero, Zero,   One>> >>

\* Matrix4::new_rotation(Vector3::x() * pitch): right-handed rotation about X.
RotX(a) ==
    << <<One,  Zero,   Zero,         Zero>>,
       <<Zero, Cos(a), RNeg(Sin(a)), Zero>>,
       <<Zero, Sin(a), Cos(a),       Zero>>,
       <<Zero, Zero,   Zero,         One>> >>

\* Matrix4::new_translation(&Vector3::new(x, y, z))
Translation(x, y, z) ==
    << <<One,  Zero, Zero, x>>,
       <<Zero, One,  Zero, y>>,
       <<Zero, Zero, One,  z>>,
       <<Zero, Zero, Zero, One>> >>

\* fn build_camera(yaw, pitch, dist): translate * rot_x * rot_y
build_camera(y, p, d) ==
    MatMul(MatMul(Translation(Zero, Zero, d), RotX(p)), RotY(y))

\* Vector3::new(v.x, v.y, v.z)
Vec3(v) == <<v[1], v[2], v[3]>>

\* fn transform(m, p): m * (p, 1), w dropped
transform(m, p) == Vec3(MatVec(m, <<p[1], p[2], p[3], One>>))

-----------------------------------------------------------------------------
(* Projection and the per-triangle render record.                          *)

near_z       == R(1, 10)
focal_length == I(2)

None    == <<"None">>
Some(v) == <<"Some", v>>
IsSome(o) == o[1] = "Some"

\* (variant: the boundary rejected too, `pos.z <= near_z`)
BehindOrAtNear(z) == RLe(z, near_z)

\* the near-plane test of project: `pos.z < near_z`
BehindNear(z) == RLt(z, near_z)

\* Some([pos.x * scale, -pos.y * scale])
Scaled(pos, scale) == Some(<<RMul(pos[1], scale), RMul(RNeg(pos[2]), scale)>>)

\* (variant: the Y axis not flipped)
projectNoFlip(pos) ==
    IF BehindNear(pos[3])
    THEN None
    ELSE Some(<<RMul(pos[1], RDiv(focal_length, pos[3])),
                RMul(pos[2], RDiv(focal_length, pos[3]))>>)

\* fn project(pos) -> Option<[f32; 2]>
project(pos) ==
    IF BehindNear(pos[3])
    THEN None
    ELSE Scaled(pos, RDiv(focal_length, pos[3]))

\* avg_z = (v0.z + v1.z + v2.z) / 3.0
AvgZ(v0, v1, v2) == RDiv(RAdd(RAdd(v0[3], v1[3]), v2[3]), I(3))

\* (variant: the clamp left out)
ShadeUnclamped(avg_z) == RSub(One, RDiv(avg_z, I(10)))

\* shade = (1.0 - (avg_z / 10.0)).clamp(0.0, 1.0)
Shade(avg_z) == RClamp(RSub(One, RDiv(avg_z, I(10))), Zero, One)

\* Option::unwrap: the value, or a panic
Unwraps(o) == IsSome(o)

\* project(v0).unwrap() .. project(v2).unwrap(), then
\* render_tris.push((avg_z, shade, p0_2d, p1_2d, p2_2d)): the record pushed, or
\* a panic when an unwrap meets None.
Pushed(avg_z, shade, o0, o1, o2) ==
    IF Unwraps(o0) /\ Unwraps(o1) /\ Unwraps(o2)
    THEN [panic |-> FALSE,
          rec   |-> [avg_z |-> avg_z, shade |-> shade,
                     p0 |-> o0[2], p1 |-> o1[2], p2 |-> o2[2]]]
    ELSE [panic |-> TRUE]

\* the loop body from the average depth on
Shaded(avg_z, v0, v1, v2) ==
    Pushed(avg_z, Shade(avg_z), project(v0), project(v1), project(v2))

\* the loop body from the transformed vertices on
Transformed(v0, v1, v2) == Shaded(AvgZ(v0, v1, v2), v0, v1, v2)

\* One pass of the loop body over triangle t.
RenderTriangle(cam, t) ==
    Transformed(transform(cam, t[1]), transform(cam, t[2]), transform(cam, t[3]))

\* (variant: the previous frame's records kept)
StaleRenderTris == render_tris

\* let mut render_tris = Vec::new();
NewRenderTris == <<>>

\* for &(p0, p1, p2) in &self.triangles { ... render_tris.push(..) }
RECURSIVE RenderLoop(_, _, _, _)
\* the loop after the pass r over triangle k
AfterPass(cam, tris, k, acc, r) ==
    IF r.panic
    THEN [panic |-> TRUE]
    ELSE RenderLoop(cam, tris, k + 1, Append(acc, r.rec))

RenderLoop(cam, tris, k, acc) ==
    IF k > Len(tris)
    THEN [panic |-> FALSE, tris |-> acc]
    ELSE AfterPass(cam, tris, k, acc, RenderTriangle(cam, tris[k]))

-----------------------------------------------------------------------------
(* The sort and the draw loop.                                             *)

\* (variant: the comparison the other way round, nearest first)
BeforeNearestFirst(a, b) == RLt(a.avg_z, b.avg_z)

\* The comparator |a, b| b.0.partial_cmp(&a.0): a goes before b when it is
\* Less, that is when b's depth is less than a's.
Before(a, b) == RLt(b.avg_z, a.avg_z)

\* Insert x after every element it does not go before (a stable insertion).
RECURSIVE InsertSorted(_, _)
InsertSorted(s, x) ==
    IF s = <<>> THEN <<x>>
    ELSE IF Before(x, Head(s)) THEN <<x>> \o s
         ELSE <<Head(s)>> \o InsertSorted(Tail(s), x)

\* render_tris.sort_by(..): slice::sort_by is a stable sort
RECURSIVE SortBy(_)
SortBy(s) ==
    IF s = <<>> THEN <<>>
    ELSE InsertSorted(SortBy(SubSeq(s, 1, Len(s) - 1)), s[Len(s)])

RenderScale == I(100)
FillColor   == <<50, 100, 255>>
StrokeColor == <<255, 255, 255>>
StrokeWidth == One

\* `as u8` saturates to 0..255
SaturateU8(v) == IF v < 0 THEN 0 ELSE IF v > 255 THEN 255 ELSE v

\* (shade * 200.0) as u8: truncates, then saturates
ColorVal(shade) == SaturateU8(RTrunc(RMul(shade, I(200))))

\* Color32::from_rgb(color_val, color_val, color_val)
Gray(color_val) == <<color_val, color_val, color_val>>

\* Pos2::new(center_2d.x + p[0] * 100.0 + pan_x, center_2d.y + p[1] * 100.0 + pan_y)
ScreenPos(center, p, px, py) ==
    <<RAdd(RAdd(center[1], RMul(p[1], RenderScale)), px),
      RAdd(RAdd(center[2], RMul(p[2], RenderScale)), py)>>

\* painter.add(Shape::convex_polygon(vec![c0, c1, c2], fill, stroke)): col is
\* computed from the shade and not used, the polygon is filled with a fixed color
Painted(col, c0, c1, c2) ==
    [points |-> <<c0, c1, c2>>,
     fill   |-> FillColor,
     stroke |-> <<StrokeWidth, StrokeColor>>]

\* The shape one pass of the draw loop adds to the painter.
DrawShape(rec, center, px, py) ==
    Painted(Gray(ColorVal(rec.shade)),
            ScreenPos(center, rec.p0, px, py),
            ScreenPos(center, rec.p1, px, py),
            ScreenPos(center, rec.p2, px, py))

\* for &(_z, shade, p0, p1, p2) in &render_tris { ... painter.add(..) }
RECURSIVE DrawLoop(_, _, _, _)
DrawLoop(recs, center, px, py) ==
    IF recs = <<>> THEN <<>>
    ELSE <<DrawShape(Head(recs), center, px, py)>>
         \o DrawLoop(Tail(recs), center, px, py)

-----------------------------------------------------------------------------
(* Geometry.  MyApp::new triangulates cube(1) union sphere(1) from csgrs;  *)
(* the rasterizer takes whatever list it is given.  The model starts from  *)
(* small lists over the same extent: faces of the unit cube [0,1]^3 and    *)
(* of a sphere of radius 1 about the origin.                               *)

P(x, y, z) == <<I(x), I(y), I(z)>>

\* around the origin, as the union is: two sphere faces, two cube faces
MeshSolid ==
    << <<P(1, 1, 1), P(1, 0, 1), P(0, 1, 1)>>,
       <<P(0, 0, -1), P(1, 0, 0), P(0, 1, 0)>>,
       <<P(1, 1, 0), P(1, 1, 1), P(1, 0, 1)>>,
       <<P(0, 0, 1), P(0, 1, 0), P(-1, 0, 0)>> >>

\* all in front of the origin: the far cube face (two triangles of equal
\* depth) and one triangle beyond it
MeshFar ==
    << <<P(0, 0, 1), P(1, 0, 1), P(1, 1, 1)>>,
       <<P(0, 0, 2), P(1, 0, 2), P(0, 1, 2)>>,
       <<P(0, 0, 1), P(1, 1, 1), P(0, 1, 1)>> >>

Meshes == {MeshSolid, MeshFar}

-----------------------------------------------------------------------------
(* Per-frame input: egui's InputState as update reads it, and the center   *)
(* of the rectangle the painter was allocated.                             *)

\* One drag per frame kind: 157 px across and 314 px down, which turns the camera
\* by 1.57 and 3.14 rad.
Deltas  == {<<I(157), I(314)>>}
\* zoom out (factor 2), none, zoom in (factor 0.5), zoom in past the clamp
\* (factor 0.05)
Scrolls == {I(-1000), Zero, I(500), I(2000)}
Centers == {<<I(400), I(300)>>, <<I(320), I(240)>>}

\* is_decidedly_dragging() is a moving pointer with a button held; without a
\* drag the pointer is at rest with the buttons up.
Inputs ==
    {i \in [dragging : BOOLEAN, primary : BOOLEAN, secondary : BOOLEAN,
            delta : Deltas \cup {<<Zero, Zero>>}, scroll : Scrolls,
            center : Centers] :
        IF i.dragging
        THEN i.delta # <<Zero, Zero>> /\ (i.primary \/ i.secondary)
        ELSE i.delta = <<Zero, Zero>> /\ ~i.primary /\ ~i.secondary}

NoInput == [dragging |-> FALSE, primary |-> FALSE, secondary |-> FALSE,
            delta |-> <<Zero, Zero>>, scroll |-> Zero,
            center |-> <<Zero, Zero>>]

NoFrame == <<>>

MaxFrames == 3

-----------------------------------------------------------------------------
(* MyApp::new and MyApp::update.                                           *)

RotateSpeed == R(1, 100)
PanSpeed    == R(1, 2)
ZoomSpeed   == R(1, 1000)
MinZoom     == R(1, 20)
\* f32::EPSILON = 2^-23
EPSILON     == R(1, 8388608)

InitDist == I(3)

Init ==
    /\ triangles \in Meshes
    /\ yaw = Zero
    /\ pitch = Zero
    /\ dist = InitDist
    /\ pan_x = Zero
    /\ pan_y = Zero
    /\ input = NoInput
    /\ render_tris = <<>>
    /\ draws = <<>>
    /\ panicked = FALSE
    /\ frames = 0
    /\ seen = NoFrame

Rotates(i) == i.dragging /\ i.primary
Pans(i)    == i.dragging /\ ~i.primary /\ i.secondary

\* (variant: the yaw turned the other way)
NewYawAdded(i) ==
    IF Rotates(i) THEN RAdd(yaw, RMul(i.delta[1], RotateSpeed)) ELSE yaw

NewYaw(i)   == IF Rotates(i) THEN RSub(yaw, RMul(i.delta[1], RotateSpeed)) ELSE yaw
NewPitch(i) == IF Rotates(i) THEN RAdd(pitch, RMul(i.delta[2], RotateSpeed)) ELSE pitch
NewPanX(i)  == IF Pans(i) THEN RAdd(pan_x, RMul(i.delta[1], PanSpeed)) ELSE pan_x
NewPanY(i)  == IF Pans(i) THEN RAdd(pan_y, RMul(i.delta[2], PanSpeed)) ELSE pan_y

\* (variant: the factor not clamped)
ZoomFactorUnclamped(scroll) == RSub(One, RMul(scroll, ZoomSpeed))

\* (1.0 - scroll * 0.001).max(0.05)
ZoomFactor(scroll) == RMax(RSub(One, RMul(scroll, ZoomSpeed)), MinZoom)

NewDist(i) ==
    IF RLt(EPSILON, RAbs(i.scroll))
    THEN RMul(dist, ZoomFactor(i.scroll))
    ELSE dist

\* The draw loop over the sorted records.
Drawn(sorted, center, px, py) ==
    [panic |-> FALSE, render_tris |-> sorted,
     draws |-> DrawLoop(sorted, center, px, py)]

\* The sort and the draw loop, when the per-triangle loop has not panicked.
Sorted(loop, center, px, py) ==
    IF loop.panic
    THEN [panic |-> TRUE, render_tris |-> <<>>, draws |-> <<>>]
    ELSE Drawn(SortBy(loop.tris), center, px, py)

\* The render pass of one frame: the records as sorted and the shapes drawn,
\* or the panic of an unwrap.
RenderPass(tris, y, p, d, px, py, center) ==
    Sorted(RenderLoop(build_camera(y, p, d), tris, 1, NewRenderTris),
           center, px, py)

\* fn update(&mut self, ctx, _frame) with the input i
Update(i) ==
    /\ ~panicked
    /\ frames < MaxFrames
    /\ input' = i
    /\ yaw' = NewYaw(i)
    /\ pitch' = NewPitch(i)
    /\ pan_x' = NewPanX(i)
    /\ pan_y' = NewPanY(i)
    /\ dist' = NewDist(i)
    /\ \E pass \in {RenderPass(triangles, yaw', pitch', dist', pan_x', pan_y',
                                i.center)} :
           /\ panicked' = pass.panic
           /\ render_tris' = pass.render_tris
           /\ draws' = pass.draws
    /\ frames' = frames + 1
    /\ UNCHANGED <<triangles, seen>>

Next == \E i \in Inputs : Update(i)

Spec == Init /\ [][Next]_vars

-----------------------------------------------------------------------------
(* The program with an observer that may remember the first frame: what   *)
(* the frame was run with and what it drew.                                *)

FrameKey == <<yaw, pitch, dist, pan_x, pan_y, input.center>>

Remember ==
    /\ seen = NoFrame
    /\ frames = 1
    /\ ~panicked
    /\ seen' = [key |-> FrameKey, render_tris |-> render_tris, draws |-> draws,
                frame |-> frames]
    /\ UNCHANGED <<triangles, yaw, pitch, dist, pan_x, pan_y, input, render_tris,
                   draws, panicked, frames>>

NextObserved == Next \/ Remember

SpecObserved == Init /\ [][NextObserved]_vars

-----------------------------------------------------------------------------
(* The render pass as a function of the camera and the triangle list: one  *)
(* frame without input, from cameras and lists drawn from small sets.      *)

PT(x, y, z) == <<x, y, z>>

\* the triangle {(0,0,2),(1,0,2),(0,1,2)}
MeshFront == << <<P(0, 0, 2), P(1, 0, 2), P(0, 1, 2)>> >>
\* a triangle in the plane z = 0.1, behind one in the plane z = 1
MeshAtNear ==
    << <<PT(Zero, Zero, R(1, 10)), PT(One, Zero, R(1, 10)), PT(Zero, One, R(1, 10))>>,
       <<P(0, 0, 1), P(1, 0, 1), P(0, 1, 1)>> >>
\* the same in the plane z = -0.05, which the distance 0.15 brings to z = 0.1
MeshAtNearZoomed ==
    << <<P(0, 0, 1), P(1, 0, 1), P(0, 1, 1)>>,
       <<PT(Zero, Zero, R(-1, 20)), PT(One, Zero, R(-1, 20)),
         PT(Zero, One, R(-1, 20))>> >>
\* a triangle in the plane z = 0.05, with one in front of it
MeshTooNear ==
    << <<P(0, 0, 2), P(1, 0, 2), P(0, 1, 2)>>,
       <<PT(Zero, Zero, R(1, 20)), PT(One, Zero, R(1, 20)), PT(Zero, One, R(1, 20))>> >>
\* points on the view axis
MeshAxis == << <<P(0, 0, 1), P(0, 0, 2), P(0, 0, 3)>> >>

PureMeshes == Meshes \cup {MeshFront, MeshAtNear, MeshAtNearZoomed, MeshTooNear,
                           MeshAxis}
PureAngles == {Zero, QuarterAngle}
PureDists  == {Zero, R(3, 20), InitDist}
PurePans   == {<<Zero, Zero>>, <<I(10), I(-5)>>}

InitPure ==
    /\ triangles \in PureMeshes
    /\ yaw \in PureAngles
    /\ pitch \in PureAngles
    /\ dist \in PureDists
    /\ \E pan \in PurePans : pan_x = pan[1] /\ pan_y = pan[2]
    /\ input = NoInput
    /\ render_tris = <<>>
    /\ draws = <<>>
    /\ panicked = FALSE
    /\ frames = 0
    /\ seen = NoFrame

Idle(center) == [dragging |-> FALSE, primary |-> FALSE, secondary |-> FALSE,
                 delta |-> <<Zero, Zero>>, scroll |-> Zero, center |-> center]

RenderOnce == frames = 0 /\ \E c \in Centers : Update(Idle(c))

SpecPure == InitPure /\ [][RenderOnce]_vars

-----------------------------------------------------------------------------
(* Properties.                                                             *)

\* camera-space position of a world point under the current camera
CamPos(p) == transform(build_camera(yaw, pitch, dist), p)
CamZ(p)   == CamPos(p)[3]

Tenth == R(1, 10)

AllProject(t) ==
    RLe(Tenth, CamZ(t[1])) /\ RLe(Tenth, CamZ(t[2])) /\ RLe(Tenth, CamZ(t[3]))
AllAtNear(t) ==
    CamZ(t[1]) = Tenth /\ CamZ(t[2]) = Tenth /\ CamZ(t[3]) = Tenth

Visible == {k \in DOMAIN triangles : AllProject(triangles[k])}

Count(s, x) == Cardinality({k \in DOMAIN s : s[k] = x})
IsPermutation(s, t) ==
    /\ Len(s) = Len(t)
    /\ \A k \in DOMAIN s : Count(s, s[k]) = Count(t, s[k])

\* the records of the current frame in the order the loop pushes them
FrameRecords ==
    RenderLoop(build_camera(yaw, pitch, dist), triangles, 1, <<>>).tris

FrameDone == frames > 0 /\ ~panicked

\* C1: in every frame a triangle with a vertex at camera-space z < 0.1 is
\* dropped and the others are still processed: the frame emits a render record
\* and a draw call exactly for the triangles whose three vertices all project.
C1_CulledTrianglesDropped ==
    frames > 0 =>
        /\ Len(render_tris) = Cardinality(Visible)
        /\ Len(draws) = Cardinality(Visible)

\* C2: no reachable camera state makes a frame abort: every frame runs to
\* completion.
C2_NoFatalError == ~panicked

\* C3: the draw calls of a frame are issued farthest first (avg_depth never
\* increases along the sequence), one per render record, and the records drawn
\* are a permutation of the records the frame built.
C3_BackToFront ==
    FrameDone =>
        /\ \A a, b \in DOMAIN render_tris :
               a < b => RLe(render_tris[b].avg_z, render_tris[a].avg_z)
        /\ IsPermutation(render_tris, FrameRecords)
        /\ Len(draws) = Len(render_tris)
        /\ \A k \in DOMAIN draws :
               draws[k].points =
                   <<ScreenPos(input.center, render_tris[k].p0, pan_x, pan_y),
                     ScreenPos(input.center, render_tris[k].p1, pan_x, pan_y),
                     ScreenPos(input.center, render_tris[k].p2, pan_x, pan_y)>>

\* C3 witness: a completed frame of at least three records that the sort had to
\* reorder, with two of different depth.
C3_Witness ==
    /\ FrameDone
    /\ Len(draws) >= 3
    /\ render_tris # FrameRecords
    /\ RLt(render_tris[Len(render_tris)].avg_z, render_tris[1].avg_z)

C5_CameraUpdate ==
    [][LET i  == input'
           dx == i.delta[1]
           dy == i.delta[2]
           f  == RSub(One, RMul(i.scroll, R(1, 1000)))
       IN  frames' # frames =>
           /\ (i.dragging /\ i.primary /\ ~i.secondary) =>
                 /\ yaw' = RSub(yaw, RMul(dx, R(1, 100)))
                 /\ pitch' = RAdd(pitch, RMul(dy, R(1, 100)))
                 /\ pan_x' = pan_x /\ pan_y' = pan_y
           /\ (i.dragging /\ i.secondary /\ ~i.primary) =>
                 /\ pan_x' = RAdd(pan_x, RMul(dx, R(1, 2)))
                 /\ pan_y' = RAdd(pan_y, RMul(dy, R(1, 2)))
                 /\ yaw' = yaw /\ pitch' = pitch
           /\ ~i.dragging =>
                 /\ yaw' = yaw /\ pitch' = pitch
                 /\ pan_x' = pan_x /\ pan_y' = pan_y
           /\ i.scroll # Zero =>
                 dist' = RMul(dist, IF RLt(f, R(1, 20)) THEN R(1, 20) ELSE f)
           /\ i.scroll = Zero => dist' = dist
           /\ triangles' = triangles]_vars

\* C5 witness: a frame that turned the camera with the primary button alone and
\* zoomed in the same frame.
C5_Witness ==
    /\ frames > 0
    /\ input.dragging /\ input.primary /\ ~input.secondary
    /\ input.scroll # Zero
    /\ yaw # Zero /\ pitch # Zero /\ dist # InitDist

\* the gray level the claim names: round(shade * 200)
RoundGray(shade) == RTrunc(RAdd(RMul(shade, I(200)), R(1, 2)))

\* C6: the fill color of a draw call is derived from the shade of its record:
\* two records of a frame whose shades give different round(shade*200) are
\* drawn with different fill colors.
C6_FillFromShade ==
    FrameDone =>
        \A a, b \in DOMAIN draws :
            RoundGray(render_tris[a].shade) # RoundGray(render_tris[b].shade)
                => draws[a].fill # draws[b].fill

\* what C7 expects of a world point seen straight on from distance d
StraightDepth(p)  == RAdd(p[3], dist)
StraightPoint(p)  ==
    <<RDiv(RMul(p[1], I(2)), StraightDepth(p)),
      RDiv(RMul(RNeg(p[2]), I(2)), StraightDepth(p))>>
StraightRecordOf(r, t) ==
    /\ r.p0 = StraightPoint(t[1])
    /\ r.p1 = StraightPoint(t[2])
    /\ r.p2 = StraightPoint(t[3])
    /\ r.avg_z = RDiv(RAdd(RAdd(StraightDepth(t[1]), StraightDepth(t[2])),
                           StraightDepth(t[3])), I(3))

\* C7: with yaw = 0 and pitch = 0 a world point (x, y, z) seen from distance d
\* has depth z + d and, when z + d >= 0.1, projects to
\* (x * 2/(z+d), -y * 2/(z+d)); points on the view axis project to (0, 0), and
\* the triangle {(0,0,2),(1,0,2),(0,1,2)} at distance 0 gives (0,0), (1,0),
\* (0,-1).
C7_StraightProjection ==
    (frames = 1 /\ yaw = Zero /\ pitch = Zero) =>
        /\ panicked <=>
               \E k \in DOMAIN triangles : \E v \in 1..3 :
                   RLt(StraightDepth(triangles[k][v]), Tenth)
        /\ ~panicked =>
               /\ Len(render_tris) = Len(triangles)
               /\ \A k \in DOMAIN triangles : \E j \in DOMAIN render_tris :
                      StraightRecordOf(render_tris[j], triangles[k])
        /\ (~panicked /\ triangles = MeshAxis) =>
               /\ render_tris[1].p0 = <<Zero, Zero>>
               /\ render_tris[1].p1 = <<Zero, Zero>>
               /\ render_tris[1].p2 = <<Zero, Zero>>
        /\ (triangles = MeshFront /\ dist = Zero) =>
               /\ ~panicked
               /\ Len(render_tris) = 1
               /\ render_tris[1].p0 = <<I(0), I(0)>>
               /\ render_tris[1].p1 = <<I(1), I(0)>>
               /\ render_tris[1].p2 = <<I(0), I(-1)>>

\* C7 witness: the frame of the triangle {(0,0,2),(1,0,2),(0,1,2)} seen straight
\* on from distance 0.
C7_Witness ==
    /\ frames = 1 /\ yaw = Zero /\ pitch = Zero /\ dist = Zero
    /\ triangles = MeshFront
    /\ Len(render_tris) = 1

\* C8: rendering has no effect on persistent state and keeps nothing from one
\* frame to the next: a frame leaves the triangle list alone, a frame without
\* input leaves the camera alone, and a frame run with the camera and canvas
\* center of a remembered frame completes with the same render records and the
\* same draw calls, whatever frames ran in between.
C8_RenderIsStateless ==
    [][frames' # frames =>
           /\ triangles' = triangles
           /\ (~input'.dragging /\ input'.scroll = Zero) =>
                  <<yaw, pitch, dist, pan_x, pan_y>>'
                      = <<yaw, pitch, dist, pan_x, pan_y>>
           /\ (seen # NoFrame /\ FrameKey' = seen.key) =>
                  /\ ~panicked'
                  /\ render_tris' = seen.render_tris
                  /\ draws' = seen.draws]_vars

\* C8 witness: the third frame zooms back in to the camera and center of the
\* remembered first frame, after a second frame that had zoomed out.
C8_Witness ==
    /\ seen # NoFrame
    /\ frames = seen.frame + 2
    /\ input.scroll = I(500)
    /\ FrameKey = seen.key
    /\ Len(draws) >= 3

NoRecordAtNear == \A j \in DOMAIN render_tris : render_tris[j].avg_z # Tenth

\* C9 as claimed: a triangle whose three vertices are at camera-space z exactly
\* 0.1 is culled: the frame's output holds no record for it.
C9_BoundaryCulled ==
    (frames = 1 /\ \E k \in DOMAIN triangles : AllAtNear(triangles[k]))
        => NoRecordAtNear

\* C9 as amended: only z strictly below 0.1 fails to project.  A frame whose
\* vertices are all at z >= 0.1 completes with a record for every triangle,
\* and a triangle with all three vertices at exactly 0.1 has its record there,
\* at depth 0.1 and projected with scale 2/0.1 = 20.
C9_BoundaryKept ==
    frames = 1 =>
        /\ (\A k \in DOMAIN triangles : AllProject(triangles[k])) =>
               /\ ~panicked
               /\ Len(render_tris) = Len(triangles)
        /\ \A k \in DOMAIN triangles :
               (AllAtNear(triangles[k]) /\ Visible = DOMAIN triangles) =>
                   \E j \in DOMAIN render_tris :
                       /\ render_tris[j].avg_z = Tenth
                       /\ render_tris[j].p0 =
                              <<RMul(CamPos(triangles[k][1])[1], I(20)),
                                RMul(CamPos(triangles[k][1])[2], I(-20))>>
        /\ (\E k \in DOMAIN triangles : ~AllProject(triangles[k])) => panicked

\* C9 witness: a completed frame holding the record of a triangle that lies in
\* the plane z = 0.1.
C9_Witness ==
    /\ frames = 1 /\ ~panicked
    /\ \E k \in DOMAIN triangles : AllAtNear(triangles[k])
    /\ \E j \in DOMAIN render_tris : render_tris[j].avg_z = Tenth

\* C10: every render record has shade = clamp(1 - avg_depth/10, 0, 1), with
\* avg_depth the mean of the three camera-space depths of one triangle: the
\* shade is in [0,1], is 1 up to depth 0, is 0 from depth 10 on, and never
\* grows with the depth.
C10_ShadeFromDepth ==
    FrameDone =>
        /\ \A j \in DOMAIN render_tris :
               LET r == render_tris[j] IN
               /\ \E k \in DOMAIN triangles :
                      r.avg_z = RDiv(RAdd(RAdd(CamZ(triangles[k][1]),
                                               CamZ(triangles[k][2])),
                                          CamZ(triangles[k][3])), I(3))
               /\ r.shade =
                      IF RLe(I(10), r.avg_z) THEN Zero
                      ELSE IF RLe(r.avg_z, Zero) THEN One
                      ELSE RSub(One, RDiv(r.avg_z, I(10)))
               /\ RLe(Zero, r.shade) /\ RLe(r.shade, One)
        /\ \A a, b \in DOMAIN render_tris :
               RLe(render_tris[a].avg_z, render_tris[b].avg_z)
                   => RLe(render_tris[b].shade, render_tris[a].shade)

\* C10 witness: a completed frame of at least three records, one of them
\* farther than depth 10 and shaded 0.
C10_Witness ==
    /\ FrameDone
    /\ \E j \in DOMAIN render_tris :
           RLt(I(10), render_tris[j].avg_z) /\ render_tris[j].shade = Zero
    /\ Len(render_tris) >= 3

====
